---- MODULE Spec2Model ----
(***************************************************************************)
(* A model of ArgoAgent: the context aggregation of cli.py                 *)
(* (get_context_from_paths and its three handlers) and the request layer   *)
(* of api.py (ask_llm, make_api_request, save_interaction_to_json).        *)
(*                                                                         *)
(* Optional values (Python's None) are sequences of length at most one:    *)
(* <<>> is None and <<v>> is the value v.                                  *)
(***************************************************************************)
EXTENDS Integers, Sequences, FiniteSets, TLC

VARIABLES
    \* ---- the file system and the tokenizer (the aggregation's environment)
    fs,             \* file -> [content: optional text, tokens: optional count]
    scandir,        \* the order in which the file system lists directory d
    \* ---- get_context_from_paths
    agg_pc,         \* "idle", "loop", "returned", "exit"
    paths,          \* the caller's path specifications the loop has taken so far
    max_tokens,     \* the caller's budget: <<>> (None) or <<B>>
    context_data,   \* get_context_from_paths's context_data (keys in insertion order)
    total_tokens,   \* get_context_from_paths's total_tokens
    reads,          \* history: files handed to read_file_content, in order
    counted,        \* history: token counts added to a total, in order
    \* ---- ask_llm, make_api_request, save_interaction_to_json
    ask_pc,         \* "idle", "post", "response", "save", "done"
    req,            \* the arguments of the running (or last) call of ask_llm
    payload,        \* None, or the dict that json.dumps serialises for the POST
    retries,        \* what is left of the mounted adapter's Retry.total
    attempts,       \* history: the transport's answers to this call, in order
    response,       \* None, or the text make_api_request returned
    ask_result,     \* how the call ended: [kind, value]
    log,            \* history: what logger.error recorded during this call
    calls,          \* history: how many calls of ask_llm were made
    saved,          \* history: how many calls wrote their interaction record in full
    interactions,   \* the interactions directory: file name -> what each open left
    clock,          \* the wall clock, in ticks
    \* ---- main, format_prompt_with_context
    cli_pc,         \* "idle", "started", "composed"
    args,           \* None, or the parsed command line
    fmt_in,         \* None, or the arguments of format_prompt_with_context
    formatted_prompt \* None, or what format_prompt_with_context returned

agg_vars == <<fs, scandir, agg_pc, paths, max_tokens, context_data, total_tokens,
              reads, counted>>

ask_vars == <<ask_pc, req, payload, retries, attempts, response, ask_result,
              log, calls, saved, interactions, clock>>

cli_vars == <<cli_pc, args, fmt_in, formatted_prompt>>

vars == <<agg_vars, ask_vars, cli_vars>>

\* ------------------------------------------------------------------ bounds

\* The largest token count of one file.
MaxTok == 2

\* The longest list of path specifications of one call.
MaxPaths == 2

\* The most calls of ask_llm in one run of the interaction log.
MaxCalls == 3

\* The last tick of the wall clock.
MaxClock == 3

\* The ticks of the wall clock in one second.
TicksPerSecond == 2

\* The longest string given to format_prompt_with_context, in pieces.
MaxStr == 2

\* The most redirects the transport answers with in one call.
MaxRedirects == 1

\* ------------------------------------------------------------ optional values

None == <<>>

Some(v) == <<v>>

IsNone(x) == x = <<>>

Val(x) == x[1]

\* ---------------------------------------------------------------- sequences

RECURSIVE SumSeq(_)
SumSeq(s) == IF s = <<>> THEN 0 ELSE Head(s) + SumSeq(Tail(s))

Range(s) == {s[i] : i \in 1..Len(s)}

\* dict.update on the keys of an insertion-ordered dict: a key already present
\* keeps its place (its value is replaced), a new key goes to the end.
RECURSIVE DictUpdate(_, _)
DictUpdate(d, new) ==
    IF new = <<>> THEN d
    ELSE DictUpdate(IF Head(new) \in Range(d) THEN d ELSE Append(d, Head(new)),
                    Tail(new))

\* --------------------------------------------------------- the file system

\* The files on disk: a directory d holding a text file, a PDF whose extension
\* is written in capitals and a file whose extension is not in the supported
\* list.
Files == {"d/a.txt", "d/b.PDF", "d/c.bin"}

\* get_supported_extensions(): the list.
get_supported_extensions ==
    <<".txt", ".csv", ".json", ".xml", ".html", ".htm", ".py", ".js", ".java",
      ".c", ".cpp", ".h", ".hpp", ".cs", ".rb", ".php", ".go", ".rs", ".swift",
      ".kt", ".scala", ".sh", ".bash", ".zsh", ".fish", ".md", ".markdown",
      ".rst", ".ini", ".cfg", ".conf", ".yaml", ".yml", ".toml", ".env",
      ".gitignore", ".pdf", ".docx", ".xlsx", ".xls", ".pptx", ".ppt">>

\* The name of a file within its directory.
Basename(f) ==
    CASE f = "d/a.txt" -> "a.txt"
      [] f = "d/b.PDF" -> "b.PDF"
      [] f = "d/c.bin" -> "c.bin"
      [] OTHER -> f

\* str.lower on the names at hand.
lower(name) == IF name = "b.PDF" THEN "b.pdf" ELSE name

\* str.endswith(ext) on the names at hand, for an extension of the list.
endswith(name, ext) ==
    \/ name = "a.txt" /\ ext = ".txt"
    \/ name = "b.pdf" /\ ext = ".pdf"
    \/ name = "b.PDF" /\ ext = ".PDF"
    \/ name = "c.bin" /\ ext = ".bin"

\* A slip of SupportedExtension: the name is compared as it is written.
SupportedExtensionCaseSensitive(f) ==
    \E i \in 1..Len(get_supported_extensions) :
        endswith(Basename(f), get_supported_extensions[i])

\* any(file.lower().endswith(ext) for ext in supported_extensions)
SupportedExtension(f) ==
    \E i \in 1..Len(get_supported_extensions) :
        endswith(lower(Basename(f)), get_supported_extensions[i])

\* The path specifications a caller may give.
PathSpecs == {"d", "d/*", "x*", "d/a.txt", "d/c.bin", "nope"}

\* '"*" in path or "?" in path'
IsWildcard(p) == p \in {"d/*", "x*"}

\* os.path.isdir
IsDir(p) == p = "d"

\* os.path.isfile
IsFile(p) == p \in Files

\* The orders in which the file system may list the directory: glob.glob and
\* os.walk sort nothing, both hand on the order of os.scandir, which is any
\* order of the entries.
Listings == {s \in [1..Cardinality(Files) -> Files] : Range(s) = Files}

\* glob.glob(path): the matches, in the order the file system lists them.
Glob(p) == IF p = "d/*" THEN scandir ELSE <<>>

\* os.walk(path): the files of the tree, joined with their root, in the order
\* the file system lists them.
Walk(p) == IF p = "d" THEN scandir ELSE <<>>

\* What one file can be: unreadable (read_file_content gives None), or readable
\* with a text whose token count is unknown (count_tokens gives None) or known.
FileStates ==
    {[content |-> None, tokens |-> None]}
    \cup {[content |-> Some("text"), tokens |-> t] :
            t \in {None} \cup {Some(n) : n \in 1..MaxTok}}

\* read_file_content(path): the extracted text of the file, or None.
read_file_content(f) == IF f \in Files THEN fs[f].content ELSE None

\* A slip of count_tokens: a text the tokenizer cannot count is given an
\* estimate.
count_tokensEstimates(f) ==
    IF IsNone(fs[f].tokens) /\ ~IsNone(fs[f].content) THEN Some(1)
    ELSE fs[f].tokens

\* count_tokens(content) for the content of file f.
count_tokens(f) == fs[f].tokens

\* The budgets a caller may give: None, or a number.
Budgets == {None} \cup {Some(b) : b \in 0..(2 * MaxTok)}

\* ------------------------------------------------- get_context_from_paths

\* Before the call: nothing aggregated.
AggIdle ==
    /\ agg_pc = "idle"
    /\ paths = <<>>
    /\ max_tokens = None
    /\ context_data = <<>>
    /\ total_tokens = 0
    /\ reads = <<>>
    /\ counted = <<>>

\* The check a handler makes after adding a file's tokens to its total.
ExceedsLimit(total, limit) == total > limit

\* The loop of a handler over its files, from the handler's locals
\* (context_data = {}, total_tokens = 0): for each file the extension filter
\* (filter = TRUE in handle_directory only), read_file_content, the entry,
\* count_tokens when a budget was given, the handler's total and its check
\* against the budget. The result holds the handler's locals when it returns
\* or raises TokenLimitExceededError, with the files read and the counts added.
RECURSIVE HandlerLoop(_, _, _, _)
HandlerLoop(files, filter, limit, st) ==
    IF files = <<>> \/ st.raised THEN st
    ELSE LET f == Head(files)
             skipped == filter /\ ~SupportedExtension(f)
             content == read_file_content(f)
             kept == ~skipped /\ ~IsNone(content)
             file_tokens == IF kept /\ ~IsNone(limit)
                            THEN count_tokens(f) ELSE None
             sum == IF IsNone(file_tokens) THEN st.total_tokens
                    ELSE st.total_tokens + Val(file_tokens)
         IN  HandlerLoop(Tail(files), filter, limit,
               [context_data |-> IF kept THEN DictUpdate(st.context_data, <<f>>)
                                 ELSE st.context_data,
                total_tokens |-> sum,
                raised |-> /\ ~IsNone(file_tokens)
                           /\ ExceedsLimit(sum, Val(limit)),
                reads |-> IF skipped THEN st.reads ELSE Append(st.reads, f),
                counted |-> IF IsNone(file_tokens) THEN st.counted
                            ELSE Append(st.counted, Val(file_tokens))])

HandlerStart ==
    [context_data |-> <<>>, total_tokens |-> 0, raised |-> FALSE,
     reads |-> <<>>, counted |-> <<>>]

\* handle_wildcard_pattern(path, max_tokens): the matches that are files.
handle_wildcard_pattern(path, limit) ==
    HandlerLoop(SelectSeq(Glob(path), IsFile), FALSE, limit, HandlerStart)

\* The files of a walk up to the first listed file that cannot be read.
RECURSIVE UpToFirstFailure(_)
UpToFirstFailure(files) ==
    IF files = <<>> THEN <<>>
    ELSE IF SupportedExtension(Head(files)) /\ IsNone(read_file_content(Head(files)))
    THEN <<Head(files)>>
    ELSE <<Head(files)>> \o UpToFirstFailure(Tail(files))

\* A slip of handle_directory: the walk ends at the first file that cannot be
\* read.
handle_directoryStopsAtFailure(path, limit) ==
    HandlerLoop(UpToFirstFailure(Walk(path)), TRUE, limit, HandlerStart)

\* handle_directory(path, max_tokens): the walk, filtered by extension.
handle_directory(path, limit) ==
    HandlerLoop(Walk(path), TRUE, limit, HandlerStart)

\* handle_single_file(path, max_tokens).
handle_single_file(path, limit) ==
    HandlerLoop(<<path>>, FALSE, limit, HandlerStart)

\* The call: context_data = {}, total_tokens = 0, then the loop over paths.
get_context_from_paths(mt) ==
    /\ agg_pc = "idle"
    /\ agg_pc' = "loop"
    /\ paths' = <<>>
    /\ max_tokens' = mt
    /\ context_data' = <<>>
    /\ total_tokens' = 0
    /\ UNCHANGED <<fs, scandir, reads, counted>>
    /\ UNCHANGED <<ask_vars, cli_vars>>

\* What get_context_from_paths does with a handler's result: on
\* TokenLimitExceededError it logs and calls sys.exit(1); otherwise
\* context_data.update(new_context) and total_tokens += new_tokens.
Accumulate(total, new_tokens) == total + new_tokens

AfterHandler(path, r) ==
    /\ paths' = Append(paths, path)
    /\ reads' = reads \o r.reads
    /\ counted' = counted \o r.counted
    /\ IF r.raised
       THEN /\ agg_pc' = "exit"
            /\ UNCHANGED <<context_data, total_tokens>>
       ELSE /\ agg_pc' = "loop"
            /\ context_data' = DictUpdate(context_data, r.context_data)
            /\ total_tokens' = Accumulate(total_tokens, r.total_tokens)
    /\ UNCHANGED <<fs, scandir, max_tokens>>
    /\ UNCHANGED <<ask_vars, cli_vars>>

\* One turn of the loop for a wildcard pattern.
LoopWildcard(path) ==
    /\ agg_pc = "loop"
    /\ Len(paths) < MaxPaths
    /\ IsWildcard(path)
    /\ AfterHandler(path, handle_wildcard_pattern(path, max_tokens))

\* One turn of the loop for a directory.
LoopDirectory(path) ==
    /\ agg_pc = "loop"
    /\ Len(paths) < MaxPaths
    /\ ~IsWildcard(path)
    /\ IsDir(path)
    /\ AfterHandler(path, handle_directory(path, max_tokens))

\* One turn of the loop for a single file.
LoopSingleFile(path) ==
    /\ agg_pc = "loop"
    /\ Len(paths) < MaxPaths
    /\ ~IsWildcard(path)
    /\ ~IsDir(path)
    /\ IsFile(path)
    /\ AfterHandler(path, handle_single_file(path, max_tokens))

\* A slip of LoopPathDoesNotExist: the missing path ends the call.
LoopPathDoesNotExistAborts(path) ==
    /\ agg_pc = "loop"
    /\ Len(paths) < MaxPaths
    /\ ~IsWildcard(path)
    /\ ~IsDir(path)
    /\ ~IsFile(path)
    /\ paths' = Append(paths, path)
    /\ agg_pc' = "exit"
    /\ UNCHANGED <<fs, scandir, max_tokens, context_data, total_tokens, reads, counted>>
    /\ UNCHANGED <<ask_vars, cli_vars>>

\* One turn of the loop for a path that is no wildcard, directory or file:
\* a warning, and the next path.
LoopPathDoesNotExist(path) ==
    /\ agg_pc = "loop"
    /\ Len(paths) < MaxPaths
    /\ ~IsWildcard(path)
    /\ ~IsDir(path)
    /\ ~IsFile(path)
    /\ paths' = Append(paths, path)
    /\ UNCHANGED <<fs, scandir, agg_pc, max_tokens, context_data, total_tokens, reads,
                   counted>>
    /\ UNCHANGED <<ask_vars, cli_vars>>

\* The list is over (an empty list has no turn at all):
\* return json.dumps(context_data, indent=2), total_tokens.
AggReturn ==
    /\ agg_pc = "loop"
    /\ agg_pc' = "returned"
    /\ UNCHANGED <<fs, scandir, paths, max_tokens, context_data, total_tokens, reads,
                   counted>>
    /\ UNCHANGED <<ask_vars, cli_vars>>

AggNext ==
    \/ \E mt \in Budgets : get_context_from_paths(mt)
    \/ \E p \in PathSpecs : LoopWildcard(p)
    \/ \E p \in PathSpecs : LoopDirectory(p)
    \/ \E p \in PathSpecs : LoopSingleFile(p)
    \/ \E p \in PathSpecs : LoopPathDoesNotExist(p)
    \/ AggReturn

\* --------------------------------------------- format_prompt_with_context

\* A string is the sequence of its pieces. A piece is a run of text that
\* holds no placeholder, or one of the three literals of the function.
PLACEHOLDER == "{context}"

BLANK_LINE == "\n\n"

SEPARATOR == "\nreply based on the content here:"

\* '"{context}" in s'
Contains(s, piece) == \E i \in 1..Len(s) : s[i] = piece

\* A slip of str_replace: only the first occurrence is replaced.
RECURSIVE str_replaceFirstOnly(_, _, _)
str_replaceFirstOnly(s, old, new) ==
    IF s = <<>> THEN <<>>
    ELSE IF Head(s) = old THEN new \o Tail(s)
    ELSE <<Head(s)>> \o str_replaceFirstOnly(Tail(s), old, new)

\* s.replace(old, new): every occurrence, from the left; what was put in is
\* not looked at again.
RECURSIVE str_replace(_, _, _)
str_replace(s, old, new) ==
    IF s = <<>> THEN <<>>
    ELSE IF Head(s) = old THEN new \o str_replace(Tail(s), old, new)
    ELSE <<Head(s)>> \o str_replace(Tail(s), old, new)

\* 'if system_prompt:': neither None nor the empty string.
Truthy(s) == ~IsNone(s) /\ Val(s) # <<>>

\* format_prompt_with_context(prompt, context, system_prompt); context and
\* system_prompt are None or a string.
format_prompt_with_context(prompt, context, system_prompt) ==
    LET with_system == IF Truthy(system_prompt)
                       THEN Val(system_prompt) \o <<BLANK_LINE>> \o prompt
                       ELSE prompt
    IN  IF IsNone(context) THEN with_system
        ELSE IF Contains(with_system, PLACEHOLDER)
        THEN str_replace(with_system, PLACEHOLDER, Val(context))
        ELSE with_system \o <<SEPARATOR>> \o Val(context)

\* Before main runs.
CliIdle ==
    /\ cli_pc = "idle"
    /\ args = None
    /\ fmt_in = None
    /\ formatted_prompt = None

\* One call of format_prompt_with_context on the arguments at hand.
Compose ==
    /\ cli_pc = "idle"
    /\ ~IsNone(fmt_in)
    /\ cli_pc' = "composed"
    /\ formatted_prompt' =
          Some(format_prompt_with_context(Val(fmt_in).prompt, Val(fmt_in).context,
                                          Val(fmt_in).system_prompt))
    /\ UNCHANGED <<args, fmt_in>>
    /\ UNCHANGED <<agg_vars, ask_vars>>

\* ------------------------------------------------------------- models.py

\* VALID_MODELS
VALID_MODELS ==
    [gpt35        |-> [max_tokens |-> 4096,   supports_standard_params |-> TRUE],
     gpt35large   |-> [max_tokens |-> 16384,  supports_standard_params |-> TRUE],
     gpt4         |-> [max_tokens |-> 8192,   supports_standard_params |-> TRUE],
     gpt4large    |-> [max_tokens |-> 32768,  supports_standard_params |-> TRUE],
     gpt4turbo    |-> [max_tokens |-> 4096,   supports_standard_params |-> TRUE],
     gpt4o        |-> [max_tokens |-> 16384,  supports_standard_params |-> TRUE],
     gpt4olatest  |-> [max_tokens |-> 16384,  supports_standard_params |-> TRUE],
     gpto1preview |-> [max_tokens |-> 16384,  supports_standard_params |-> FALSE],
     gpto1mini    |-> [max_tokens |-> 65536,  supports_standard_params |-> FALSE],
     gpto3mini    |-> [max_tokens |-> 100000, supports_standard_params |-> FALSE],
     gpto1        |-> [max_tokens |-> 200000, supports_standard_params |-> FALSE]]

ModelNames == DOMAIN VALID_MODELS

\* validate_model(model_name): the configuration, or ValueError (None here).
validate_model(model_name) ==
    IF model_name \notin ModelNames THEN None
    ELSE Some(VALID_MODELS[model_name])

\* ---------------------------------------------------------------- api.py

DEFAULT_SYSTEM_PROMPT == "You are a helpful AI assistant."

\* Temperatures and top_p values are written in tenths: 7 is 0.7, 20 is 2.

\* validate_parameters(temperature, top_p, max_tokens): the name of the first
\* parameter it rejects with ValueError, or "ok".
validate_parameters(temperature, top_p, mt) ==
    IF ~(0 <= temperature /\ temperature <= 20) THEN "temperature"
    ELSE IF ~(0 <= top_p /\ top_p <= 10) THEN "top_p"
    ELSE IF mt <= 0 THEN "max_tokens"
    ELSE "ok"

Min(a, b) == IF a <= b THEN a ELSE b

\* A slip of TokenCeiling: the caller's number is sent without the model's cap.
TokenCeilingUncapped(mt, model_config) == mt

\* The ceiling ask_llm sends: min(max_tokens, model_config["max_tokens"]).
TokenCeiling(mt, model_config) == Min(mt, model_config.max_tokens)

\* A slip of RequestData: the sampling parameters are sent to every model.
RequestDataAlwaysSampling(r, model_config) ==
    IF model_config.supports_standard_params
    THEN [user |-> Val(r.argo_user), model |-> r.model,
          system |-> r.system_prompt, prompt |-> <<r.prompt>>, stop |-> <<>>,
          temperature |-> r.temperature, top_p |-> r.top_p,
          max_tokens |-> Min(r.max_tokens, model_config.max_tokens)]
    ELSE [user |-> Val(r.argo_user), model |-> r.model,
          system |-> r.system_prompt, prompt |-> <<r.prompt>>, stop |-> <<>>,
          temperature |-> r.temperature, top_p |-> r.top_p,
          max_completion_tokens |-> Min(r.max_tokens, model_config.max_tokens)]

\* The request data of ask_llm, with the parameters the model supports.
RequestData(r, model_config) ==
    IF model_config.supports_standard_params
    THEN [user |-> Val(r.argo_user), model |-> r.model,
          system |-> r.system_prompt, prompt |-> <<r.prompt>>, stop |-> <<>>,
          temperature |-> r.temperature, top_p |-> r.top_p,
          max_tokens |-> TokenCeiling(r.max_tokens, model_config)]
    ELSE [user |-> Val(r.argo_user), model |-> r.model,
          system |-> r.system_prompt, prompt |-> <<r.prompt>>, stop |-> <<>>,
          max_completion_tokens |-> TokenCeiling(r.max_tokens, model_config)]

\* A slip of RetryTotal: one retry more.
RetryTotalOneMore == 3 + 1

\* Retry(total=3, ...)
RetryTotal == 3

\* Retry(..., status_forcelist=[500, 502, 503, 504])
status_forcelist == {500, 502, 503, 504}

\* Retry(...) is built without allowed_methods, so the library's default
\* applies: the idempotent methods, POST not among them.
allowed_methods == {"HEAD", "GET", "PUT", "DELETE", "OPTIONS", "TRACE"}

\* session.post
Method == "POST"

\* session.mount("https://", HTTPAdapter(max_retries=retry)): the retry
\* strategy serves https URLs; any other URL keeps the session's default
\* adapter, Retry(0, read=False), which does not retry.
MountedTotal(url) == IF url = "https" THEN RetryTotal ELSE 0

\* The status_forcelist of the adapter that serves the URL: the default
\* adapter's Retry has none.
MountedForcelist(url) == IF url = "https" THEN status_forcelist ELSE {}

\* Retry.RETRY_AFTER_STATUS_CODES
RETRY_AFTER_STATUS_CODES == {413, 429, 503}

\* A slip of is_retry: every error status is retried, whatever the method.
is_retryEveryError(retry, method, status_code, has_retry_after) ==
    status_code >= 400

\* Retry.is_retry(method, status_code, has_retry_after) of a Retry with the
\* given total left and status_forcelist: never for a method outside
\* allowed_methods; for a status of status_forcelist; and, while total is
\* not 0, for a status of RETRY_AFTER_STATUS_CODES that carries Retry-After.
is_retry(retry, method, status_code, has_retry_after) ==
    /\ method \in allowed_methods
    /\ \/ status_code \in retry.status_forcelist
       \/ /\ retry.total # 0
          /\ has_retry_after
          /\ status_code \in RETRY_AFTER_STATUS_CODES

\* Session.max_redirects of requests.Session(): DEFAULT_REDIRECT_LIMIT.
max_redirects == 30

\* requests' REDIRECT_STATI
REDIRECT_STATI == {301, 302, 303, 307, 308}

\* response.raise_for_status(): HTTPError for a 4xx or 5xx status.
raise_for_status(status_code) == 400 <= status_code /\ status_code < 600

\* ---- the transport's answers

NoBody == "none"

\* The body of a 200 answer: a JSON object with the response field, a JSON
\* object without it, a JSON array, or text that is no JSON.
Bodies == {"object_with_response", "object_without_response", "array",
           "not_json"}

NoLocation == "none"

\* One answer of the transport to one attempt: a failure to connect, a failure
\* while reading the answer, or an HTTP status with a body, the scheme of its
\* Location header when it has one, and whether it carries Retry-After.
Answer(kind, status, body, location, retry_after) ==
    [kind |-> kind, status |-> status, body |-> body, location |-> location,
     retry_after |-> retry_after]

\* The answers session.post hands back without following them: failures,
\* 200 with each body, error statuses (429 with and without Retry-After),
\* and a 302 that has no Location.
DirectOutcomes ==
    {Answer("connection_error", 0, NoBody, NoLocation, FALSE),
     Answer("read_error", 0, NoBody, NoLocation, FALSE)}
    \cup {Answer("status", 200, b, NoLocation, FALSE) : b \in Bodies}
    \cup {Answer("status", s, NoBody, NoLocation, FALSE) :
            s \in {302, 400, 404, 429, 500, 502, 503, 504}}
    \cup {Answer("status", 429, NoBody, NoLocation, TRUE)}

\* The redirect answers: each status of REDIRECT_STATI with a Location on an
\* https or an http URL.
RedirectOutcomes ==
    {Answer("status", s, NoBody, l, FALSE) :
        s \in REDIRECT_STATI, l \in {"https", "http"}}

Outcomes == DirectOutcomes \cup RedirectOutcomes

\* Response.is_redirect: a Location header and a status of REDIRECT_STATI.
is_redirect(o) ==
    o.kind = "status" /\ o.location # NoLocation /\ o.status \in REDIRECT_STATI

\* SessionRedirectMixin.rebuild_method: 303 and 302 turn any method but HEAD
\* into GET, 301 turns POST into GET, 307 and 308 keep the method.
rebuild_method(method, status_code) ==
    IF status_code = 303 /\ method # "HEAD" THEN "GET"
    ELSE IF status_code = 302 /\ method # "HEAD" THEN "GET"
    ELSE IF status_code = 301 /\ method = "POST" THEN "GET"
    ELSE method

\* How many redirects the call has followed (len(resp.history)).
Redirects(history) == Len(SelectSeq(history, is_redirect))

\* The method of the request being sent after the answers so far.
RECURSIVE MethodAfter(_, _)
MethodAfter(history, method) ==
    IF history = <<>> THEN method
    ELSE MethodAfter(Tail(history),
                     IF is_redirect(Head(history))
                     THEN rebuild_method(method, Head(history).status)
                     ELSE method)

\* The URL of the request being sent after the answers so far: the Location
\* of the last redirect, or the URL session.post was given.
RECURSIVE UrlAfter(_, _)
UrlAfter(history, url) ==
    IF history = <<>> THEN url
    ELSE UrlAfter(Tail(history),
                  IF is_redirect(Head(history)) THEN Head(history).location
                  ELSE url)

\* The text of the response field of the bodies that have one.
ResponseText == "hello"

NoResult == [kind |-> "none", value |-> ""]

Returned(text) == [kind |-> "return", value |-> text]

Raised(error) == [kind |-> "raise", value |-> error]

\* Before the first call of ask_llm.
AskIdle ==
    /\ ask_pc = "idle"
    /\ req = None
    /\ payload = None
    /\ retries = 0
    /\ attempts = <<>>
    /\ response = None
    /\ ask_result = NoResult
    /\ log = <<>>
    /\ calls = 0
    /\ saved = 0
    /\ interactions = <<>>
    /\ clock = 0

\* ask_llm up to the call of make_api_request: the check of the URL and the
\* user, validate_model, validate_parameters, the request data, the payload.
ask_llm(r) ==
    /\ ask_pc \in {"idle", "done"}
    /\ req' = Some(r)
    /\ calls' = calls + 1
    /\ attempts' = <<>>
    /\ response' = None
    /\ LET model_config == validate_model(r.model)
           bad == validate_parameters(r.temperature, r.top_p, r.max_tokens)
       IN  IF IsNone(r.argo_url) \/ IsNone(r.argo_user)
           THEN /\ ask_result' = Raised("ValueError")
                /\ ask_pc' = "done"
                /\ log' = <<>>
                /\ payload' = None
                /\ retries' = 0
           ELSE IF IsNone(model_config)
           THEN /\ ask_result' = Returned("")
                /\ ask_pc' = "done"
                /\ log' = <<"invalid_model">>
                /\ payload' = None
                /\ retries' = 0
           ELSE IF bad # "ok"
           THEN /\ ask_result' = Returned("")
                /\ ask_pc' = "done"
                /\ log' = <<"invalid_" \o bad>>
                /\ payload' = None
                /\ retries' = 0
           ELSE /\ ask_result' = NoResult
                /\ ask_pc' = "post"
                /\ log' = <<>>
                /\ payload' = Some(RequestData(r, Val(model_config)))
                /\ retries' = MountedTotal(Val(r.argo_url))
    /\ UNCHANGED <<saved, interactions, clock>>
    /\ UNCHANGED <<agg_vars, cli_vars>>

\* make_api_request logs a RequestException of session.post and raises it again.
PostFails(error) ==
    /\ ask_result' = Raised(error)
    /\ log' = Append(log, "post_error")
    /\ ask_pc' = "done"
    /\ UNCHANGED retries

\* One attempt of session.post under the Retry of the adapter that serves the
\* request's URL: a failure to connect is retried while Retry.total lasts; a
\* failure while reading is retried only for a method of allowed_methods; a
\* status is retried only when is_retry says so, and is otherwise handed
\* back. A response that is a redirect is followed (allow_redirects is left
\* at its default): the next request goes to the Location with the method
\* rebuild_method gives, under a fresh Retry of the adapter of that URL,
\* unless max_redirects have been followed already. The model follows at
\* most MaxRedirects redirects in a call.
session_post(o) ==
    /\ ask_pc = "post"
    /\ is_redirect(o) => Redirects(attempts) < MaxRedirects
    /\ attempts' = Append(attempts, o)
    /\ LET method == MethodAfter(attempts, Method)
           url == UrlAfter(attempts, Val(Val(req).argo_url))
           retry == [total |-> retries,
                     status_forcelist |-> MountedForcelist(url)]
       IN  IF \/ o.kind = "connection_error"
              \/ o.kind = "read_error" /\ method \in allowed_methods
              \/ /\ o.kind = "status"
                 /\ is_retry(retry, method, o.status, o.retry_after)
           THEN IF retries - 1 < 0
                THEN PostFails(IF o.kind = "status" THEN "RetryError"
                               ELSE "ConnectionError")
                ELSE /\ retries' = retries - 1
                     /\ UNCHANGED <<ask_pc, ask_result, log>>
           ELSE IF o.kind = "read_error"
           THEN PostFails("ConnectionError")
           ELSE IF is_redirect(o)
           THEN IF Redirects(attempts) >= max_redirects
                THEN PostFails("TooManyRedirects")
                ELSE /\ retries' = MountedTotal(o.location)
                     /\ UNCHANGED <<ask_pc, ask_result, log>>
           ELSE /\ ask_pc' = "response"
                /\ UNCHANGED <<retries, ask_result, log>>
    /\ UNCHANGED <<req, payload, response, calls, saved, interactions, clock>>
    /\ UNCHANGED <<agg_vars, cli_vars>>

\* response.json().get("response", ""): the text, or the error raised.
ParseBody(body) ==
    IF body = "object_with_response" THEN Returned(ResponseText)
    ELSE IF body = "object_without_response" THEN Returned("")
    ELSE IF body = "array" THEN Raised("AttributeError")
    ELSE Raised("JSONDecodeError")

\* The rest of make_api_request once session.post handed back a response:
\* raise_for_status, then the response field of the decoded body.
make_api_request_response ==
    /\ ask_pc = "response"
    /\ LET o == attempts[Len(attempts)]
           parsed == ParseBody(o.body)
       IN  IF raise_for_status(o.status)
           THEN /\ ask_result' = Raised("HTTPError")
                /\ log' = Append(log, "post_error")
                /\ ask_pc' = "done"
                /\ UNCHANGED response
           ELSE IF parsed.kind = "raise"
           THEN /\ ask_result' = parsed
                /\ log' = IF parsed.value = "JSONDecodeError"
                          THEN Append(log, "parse_error") ELSE log
                /\ ask_pc' = "done"
                /\ UNCHANGED response
           ELSE /\ response' = Some(parsed.value)
                /\ ask_pc' = "save"
                /\ UNCHANGED <<ask_result, log>>
    /\ UNCHANGED <<req, payload, retries, attempts, calls, saved, interactions, clock>>
    /\ UNCHANGED <<agg_vars, cli_vars>>

\* datetime.now().strftime("%Y%m%d_%H%M%S"): the time to the whole second.
strftime(t) == t \div TicksPerSecond

\* interactions_dir / f"{data['user']}_{data['model']}_{timestamp}.json"
Filename(data, timestamp) == <<data.user, data.model, timestamp>>

\* open(filename, "w") creates the file or truncates it; json.dump then
\* writes the record. The model keeps, for each file, what every open left in
\* it: the record of the call (complete), or a file that is empty or cut short
\* because the write failed (not complete). The file holds what the last
\* open left.
WriteFile(fileset, name, call, complete) ==
    LET written == [call |-> call, complete |-> complete]
    IN  IF name \in DOMAIN fileset
        THEN [fileset EXCEPT ![name] = Append(@, written)]
        ELSE fileset @@ (name :> <<written>>)

\* A slip of save_and_return: the record toggle is not looked at.
save_and_returnIgnoresToggle(mkdir_ok, open_ok, write_ok) ==
    /\ ask_pc = "save"
    /\ ask_pc' = "done"
    /\ IF ~mkdir_ok
       THEN /\ ask_result' = Raised("OSError")
            /\ UNCHANGED <<log, saved, interactions>>
       ELSE IF ~open_ok
       THEN /\ ask_result' = Returned(Val(response))
            /\ log' = Append(log, "save_error")
            /\ UNCHANGED <<saved, interactions>>
       ELSE IF ~write_ok
       THEN /\ ask_result' = Returned(Val(response))
            /\ log' = Append(log, "save_error")
            /\ interactions' = WriteFile(interactions,
                                  Filename(Val(payload), strftime(clock)),
                                  calls, FALSE)
            /\ UNCHANGED saved
       ELSE /\ ask_result' = Returned(Val(response))
            /\ interactions' = WriteFile(interactions,
                                  Filename(Val(payload), strftime(clock)),
                                  calls, TRUE)
            /\ saved' = saved + 1
            /\ UNCHANGED log
    /\ UNCHANGED <<req, payload, retries, attempts, response, calls, clock>>
    /\ UNCHANGED <<agg_vars, cli_vars>>

\* The end of ask_llm: save_interaction_to_json when record is set, then
\* return response. mkdir_ok, open_ok and write_ok say whether the file
\* system lets the interactions directory be made, the file be opened for
\* writing, and the record be written into it.
\* mkdir is called outside the try block, so its OSError leaves ask_llm; the
\* OSError of open or of the write is caught and logged. When the write
\* fails the file was already created or truncated by open, and stays so.
save_and_return(mkdir_ok, open_ok, write_ok) ==
    /\ ask_pc = "save"
    /\ ask_pc' = "done"
    /\ IF ~Val(req).record
       THEN /\ ask_result' = Returned(Val(response))
            /\ UNCHANGED <<log, saved, interactions>>
       ELSE IF ~mkdir_ok
       THEN /\ ask_result' = Raised("OSError")
            /\ UNCHANGED <<log, saved, interactions>>
       ELSE IF ~open_ok
       THEN /\ ask_result' = Returned(Val(response))
            /\ log' = Append(log, "save_error")
            /\ UNCHANGED <<saved, interactions>>
       ELSE IF ~write_ok
       THEN /\ ask_result' = Returned(Val(response))
            /\ log' = Append(log, "save_error")
            /\ interactions' = WriteFile(interactions,
                                  Filename(Val(payload), strftime(clock)),
                                  calls, FALSE)
            /\ UNCHANGED saved
       ELSE /\ ask_result' = Returned(Val(response))
            /\ interactions' = WriteFile(interactions,
                                  Filename(Val(payload), strftime(clock)),
                                  calls, TRUE)
            /\ saved' = saved + 1
            /\ UNCHANGED log
    /\ UNCHANGED <<req, payload, retries, attempts, response, calls, clock>>
    /\ UNCHANGED <<agg_vars, cli_vars>>

\* Time passes.
Tick ==
    /\ clock < MaxClock
    /\ clock' = clock + 1
    /\ UNCHANGED <<ask_pc, req, payload, retries, attempts, response,
                   ask_result, log, calls, saved, interactions>>
    /\ UNCHANGED <<agg_vars, cli_vars>>

\* ------------------------------------------------------------------ main

\* SYSTEM_PROMPTS.get(prompt_name, ""): the text of a named system prompt.
get_system_prompt(prompt_name) ==
    IF prompt_name = "code_review" THEN "You are an expert code reviewer."
    ELSE ""

\* TASKS: the tasks loaded from the task files. One names a system prompt and
\* has a user prompt with the placeholder, the other has no system prompt.
TASKS ==
    [review |-> [system_prompt |-> "code_review",
                 user_prompt |-> <<"x", PLACEHOLDER>>],
     bare   |-> [system_prompt |-> "", user_prompt |-> <<"x">>]]

\* The text of a system prompt as a string of pieces.
PiecesOf(text) == IF text = "" THEN <<>> ELSE <<text>>

\* main's system_prompt: None, or the text get_system_prompt gave for the
\* task's system prompt or for -s.
SelectedSystemPrompt(a) ==
    IF ~IsNone(a.task)
    THEN Some(get_system_prompt(TASKS[Val(a.task)].system_prompt))
    ELSE IF ~IsNone(a.system) THEN Some(get_system_prompt(Val(a.system)))
    ELSE None

\* main's prompt_text: the task's user prompt when a task is given without
\* a prompt.
PromptText(a) ==
    IF ~IsNone(a.task) /\ (IsNone(a.prompt) \/ Val(a.prompt) = <<>>)
    THEN TASKS[Val(a.task)].user_prompt
    ELSE Val(a.prompt)

\* json.dumps(context_data, indent=2): one piece for each entry, in the
\* mapping's order, between the braces.
json_dumps(d) == <<"{">> \o d \o <<"}">>

\* A slip of MainRequest: the selected system prompt is handed to ask_llm.
MainRequestPassesSystem(a, prompt) ==
    [prompt |-> prompt, model |-> a.model, argo_url |-> a.argo_url,
     argo_user |-> a.argo_user, temperature |-> a.temperature,
     top_p |-> a.top_p, max_tokens |-> a.max_tokens,
     system_prompt |-> IF IsNone(SelectedSystemPrompt(a))
                          \/ SelectedSystemPrompt(a) = Some("")
                       THEN DEFAULT_SYSTEM_PROMPT
                       ELSE Val(SelectedSystemPrompt(a)),
     record |-> TRUE]

\* The arguments main gives ask_llm; system_prompt and record are left to
\* their defaults.
MainRequest(a, prompt) ==
    [prompt |-> prompt, model |-> a.model, argo_url |-> a.argo_url,
     argo_user |-> a.argo_user, temperature |-> a.temperature,
     top_p |-> a.top_p, max_tokens |-> a.max_tokens,
     system_prompt |-> DEFAULT_SYSTEM_PROMPT, record |-> TRUE]

\* main up to the context: parse_args, the task, the prompt text, the system
\* prompt.
main(a) ==
    /\ cli_pc = "idle"
    /\ cli_pc' = "started"
    /\ args' = Some(a)
    /\ UNCHANGED <<fmt_in, formatted_prompt>>
    /\ UNCHANGED <<agg_vars, ask_vars>>

\* 'if args.context:' get_context_from_paths(args.context, args.max_tokens).
main_context ==
    /\ cli_pc = "started"
    /\ Val(args).context
    /\ get_context_from_paths(Some(Val(args).max_tokens))

\* get_context_from_paths returns to main: args.context is the list of a
\* nargs="+" option that passed 'if args.context:', so its loop took at least
\* one path.
main_context_returns ==
    /\ cli_pc = "started"
    /\ Val(args).context
    /\ paths # <<>>
    /\ AggReturn

\* format_prompt_with_context(prompt_text, context, system_prompt), once the
\* context is there (when the budget error ended get_context_from_paths the
\* process has exited).
main_format ==
    /\ cli_pc = "started"
    /\ agg_pc = IF Val(args).context THEN "returned" ELSE "idle"
    /\ LET a == Val(args)
           context == IF a.context THEN Some(json_dumps(context_data)) ELSE None
           system_prompt == IF IsNone(SelectedSystemPrompt(a)) THEN None
                            ELSE Some(PiecesOf(Val(SelectedSystemPrompt(a))))
       IN  /\ fmt_in' = Some([prompt |-> PromptText(a), context |-> context,
                              system_prompt |-> system_prompt])
           /\ formatted_prompt' =
                 Some(format_prompt_with_context(PromptText(a), context,
                                                 system_prompt))
    /\ cli_pc' = "composed"
    /\ UNCHANGED args
    /\ UNCHANGED <<agg_vars, ask_vars>>

\* Unless -n was given: ask_llm(prompt=formatted_prompt, model=args.model, ...).
main_ask ==
    /\ cli_pc = "composed"
    /\ ~Val(args).number_of_tokens
    /\ ask_pc = "idle"
    /\ ask_llm(MainRequest(Val(args), Val(formatted_prompt)))

\* ------------------------------------------------------- the specifications

\* The file system of the runs that only call ask_llm: nothing readable.
NoFiles == [f \in Files |-> [content |-> None, tokens |-> None]]

\* The listing of the runs that list no directory.
NoListing == <<"d/c.bin", "d/b.PDF", "d/a.txt">>

\* The arguments of one call of ask_llm.
Requests ==
    [argo_url : {None, Some("https"), Some("http")},
     argo_user : {None, Some("alice")},
     model : ModelNames \cup {"bogus"},
     temperature : {-1, 0, 7, 20, 30},
     top_p : {-1, 0, 10, 11},
     max_tokens : {0, 1, 4096, 16385, 200001},
     record : BOOLEAN,
     prompt : {"p"},
     system_prompt : {DEFAULT_SYSTEM_PROMPT}]

\* The arguments of the calls of a run that fills the interaction log: calls
\* that pass every check, by two users to two models.
RecordedRequests ==
    [argo_url : {Some("https")},
     argo_user : {Some("alice"), Some("bob")},
     model : {"gpt4o", "gpto1"},
     temperature : {7},
     top_p : {9},
     max_tokens : {4096},
     record : BOOLEAN,
     prompt : {"p"},
     system_prompt : {DEFAULT_SYSTEM_PROMPT}]

\* One aggregation over any file system.
AggInit ==
    /\ fs \in [Files -> FileStates]
    /\ scandir \in Listings
    /\ AggIdle /\ AskIdle /\ CliIdle

SpecAgg == AggInit /\ [][AggNext]_vars

\* One call of ask_llm with any arguments, against any transport.
AskInit ==
    /\ fs = NoFiles
    /\ scandir = NoListing
    /\ AggIdle /\ AskIdle /\ CliIdle

AskOnce == calls = 0 /\ \E r \in Requests : ask_llm(r)

AskNext ==
    \/ AskOnce
    \/ \E o \in DirectOutcomes : session_post(o)
    \/ make_api_request_response
    \/ \E mkdir_ok \in BOOLEAN, open_ok \in BOOLEAN, write_ok \in BOOLEAN :
          save_and_return(mkdir_ok, open_ok, write_ok)

SpecAsk == AskInit /\ [][AskNext]_vars

\* The arguments of a call that passes every check, to an https and to an
\* http URL.
TransportRequests ==
    [argo_url : {Some("https"), Some("http")},
     argo_user : {Some("alice")},
     model : {"gpt4o"},
     temperature : {7},
     top_p : {9},
     max_tokens : {4096},
     record : {FALSE},
     prompt : {"p"},
     system_prompt : {DEFAULT_SYSTEM_PROMPT}]

\* The answers of the transport in a run that follows redirects: one of each
\* kind that session.post treats differently.
TransportOutcomes ==
    {Answer("connection_error", 0, NoBody, NoLocation, FALSE),
     Answer("read_error", 0, NoBody, NoLocation, FALSE),
     Answer("status", 200, "object_with_response", NoLocation, FALSE),
     Answer("status", 404, NoBody, NoLocation, FALSE),
     Answer("status", 503, NoBody, NoLocation, FALSE),
     Answer("status", 429, NoBody, NoLocation, TRUE),
     Answer("status", 302, NoBody, "https", FALSE),
     Answer("status", 307, NoBody, "https", FALSE),
     Answer("status", 307, NoBody, "http", FALSE)}

\* One call of ask_llm whose transport may answer with redirects.
TransportInit ==
    /\ fs = NoFiles
    /\ scandir = NoListing
    /\ AggIdle /\ AskIdle /\ CliIdle

TransportAsk == calls = 0 /\ \E r \in TransportRequests : ask_llm(r)

TransportNext ==
    \/ TransportAsk
    \/ \E o \in TransportOutcomes : session_post(o)
    \/ make_api_request_response
    \/ \E mkdir_ok \in BOOLEAN, open_ok \in BOOLEAN, write_ok \in BOOLEAN :
          save_and_return(mkdir_ok, open_ok, write_ok)

SpecTransport == TransportInit /\ [][TransportNext]_vars

\* Up to MaxCalls calls of ask_llm in a row while time passes.
AskRecorded == calls < MaxCalls /\ \E r \in RecordedRequests : ask_llm(r)

LogNext ==
    \/ AskRecorded
    \/ \E o \in DirectOutcomes : session_post(o)
    \/ make_api_request_response
    \/ \E mkdir_ok \in BOOLEAN, open_ok \in BOOLEAN, write_ok \in BOOLEAN :
          save_and_return(mkdir_ok, open_ok, write_ok)
    \/ Tick

SpecLog == AskInit /\ [][LogNext]_vars

\* The strings format_prompt_with_context is called with: up to MaxStr pieces,
\* each a run of text or the placeholder.
Pieces == {"x", PLACEHOLDER}

Strings == UNION {[1..n -> Pieces] : n \in 0..MaxStr}

OptionalStrings == {None} \cup {Some(s) : s \in Strings}

\* One call of format_prompt_with_context with any arguments.
ComposeInit ==
    /\ fs = NoFiles /\ scandir = NoListing /\ AggIdle /\ AskIdle
    /\ cli_pc = "idle"
    /\ args = None
    /\ formatted_prompt = None
    /\ fmt_in \in {Some(i) : i \in [prompt : Strings,
                                     context : OptionalStrings,
                                     system_prompt : OptionalStrings]}

SpecCompose == ComposeInit /\ [][Compose]_vars

\* The command lines: -s and -t exclude each other, and without a task a
\* prompt must be given.
CliArgs ==
    {a \in [system : {None, Some("code_review")},
            task : {None, Some("review"), Some("bare")},
            prompt : {None, Some(<<"x">>), Some(<<"x", PLACEHOLDER>>)},
            context : BOOLEAN,
            number_of_tokens : BOOLEAN,
            max_tokens : {1, 100000},
            model : {"gpt4olatest"},
            argo_url : {Some("https")},
            argo_user : {Some("alice")},
            temperature : {0},
            top_p : {9}] :
        /\ IsNone(a.system) \/ IsNone(a.task)
        /\ IsNone(a.prompt) => ~IsNone(a.task)}

\* A file system whose files can all be read and hold one token each.
OneTokenFiles == [f \in Files |-> [content |-> Some("text"), tokens |-> Some(1)]]

\* One run of main with any command line.
MainInit ==
    /\ fs = OneTokenFiles
    /\ scandir \in Listings
    /\ AggIdle /\ AskIdle /\ CliIdle

MainNext ==
    \/ \E a \in CliArgs : main(a)
    \/ main_context
    \/ \E p \in PathSpecs : LoopWildcard(p)
    \/ \E p \in PathSpecs : LoopDirectory(p)
    \/ \E p \in PathSpecs : LoopSingleFile(p)
    \/ \E p \in PathSpecs : LoopPathDoesNotExist(p)
    \/ main_context_returns
    \/ main_format
    \/ main_ask
    \/ \E o \in DirectOutcomes : session_post(o)
    \/ make_api_request_response
    \/ \E mkdir_ok \in BOOLEAN, open_ok \in BOOLEAN, write_ok \in BOOLEAN :
          save_and_return(mkdir_ok, open_ok, write_ok)

SpecMain == MainInit /\ [][MainNext]_vars

\* ================================================================ claims

\* ---- C1

\* The sum of the token counts the call added, over all its specifications.
CountedSum == SumSeq(counted)

\* No file was read twice in the call.
NoFileTwice == Cardinality(Range(reads)) = Len(reads)

\* C1: with a budget B and files whose counted tokens sum to S over the whole
\* call, get_context_from_paths returns total_tokens = S only when S <= B, and
\* ends with the budget error only when S > B. Stated for the calls that read
\* no file twice, where S is the same however it is counted.
C1_BudgetDecidesOutcome ==
    (~IsNone(max_tokens) /\ NoFileTwice) =>
        /\ agg_pc = "returned" =>
              (CountedSum <= Val(max_tokens) /\ total_tokens = CountedSum)
        /\ agg_pc = "exit" => CountedSum > Val(max_tokens)

\* ---- C2

\* The token count of an entry of the mapping: the count of its text when the
\* tokenizer knows it, nothing otherwise.
EntryTokens(f) == IF IsNone(count_tokens(f)) THEN 0 ELSE Val(count_tokens(f))

RECURSIVE SumOfEntries(_)
SumOfEntries(entries) ==
    IF entries = <<>> THEN 0
    ELSE EntryTokens(Head(entries)) + SumOfEntries(Tail(entries))

\* C2: when get_context_from_paths returns under a budget, total_tokens is the
\* sum of the token counts of the entries of the returned mapping, each entry
\* counted once.
C2_TotalIsSumOfEntries ==
    (agg_pc = "returned" /\ ~IsNone(max_tokens)) =>
        total_tokens = SumOfEntries(context_data)

\* ---- C3

Status(s, b) == Answer("status", s, b, NoLocation, FALSE)

\* The transport that answers 503, 503, then 200 with a response field.
Script503 ==
    <<Status(503, NoBody), Status(503, NoBody),
      Status(200, "object_with_response")>>

IsPrefix(a, b) == Len(a) <= Len(b) /\ a = SubSeq(b, 1, Len(a))

\* C3: against the transport that answers 503 twice and then 200,
\* make_api_request has returned the response field of the 200 body when the
\* call is over, and the transport was invoked exactly 3 times.
C3_RetriesUntilSuccess ==
    (ask_pc = "done" /\ attempts # <<>> /\ IsPrefix(attempts, Script503)) =>
        (Len(attempts) = 3 /\ response = Some(ResponseText))

\* ---- C4

\* The answer before attempt i, the one attempt i retries.
RetriedAnswer(i) == attempts[i - 1]

IsRetry(i) == i > 1 /\ ~is_redirect(RetriedAnswer(i))

\* The method and the URL of the request of attempt i.
MethodOfAttempt(i) == MethodAfter(SubSeq(attempts, 1, i - 1), Method)
UrlOfAttempt(i) == UrlAfter(SubSeq(attempts, 1, i - 1), Val(Val(req).argo_url))

ReachedParameterCheck ==
    /\ ~IsNone(req)
    /\ ~IsNone(Val(req).argo_url)
    /\ ~IsNone(Val(req).argo_user)
    /\ Val(req).model \in ModelNames

OutOfRange(r) ==
    \/ r.temperature < 0 \/ r.temperature > 20
    \/ r.top_p < 0 \/ r.top_p > 10
    \/ r.max_tokens <= 0

\* C5: a call whose temperature, top_p or max_tokens is out of range ends
\* with an error raised to the caller, and the transport was never invoked.
C5_InvalidParameterRaises ==
    (ask_pc = "done" /\ ReachedParameterCheck /\ OutOfRange(Val(req))) =>
        (ask_result.kind = "raise" /\ attempts = <<>>)

\* ---- C6

\* C6: a call that names a model outside the registry ends with an error
\* raised to the caller, before any invocation of the transport and before
\* any interaction record.
C6_UnknownModelRaises ==
    (/\ ask_pc = "done"
     /\ ~IsNone(req)
     /\ ~IsNone(Val(req).argo_url)
     /\ ~IsNone(Val(req).argo_user)
     /\ Val(req).model \notin ModelNames) =>
        (ask_result.kind = "raise" /\ attempts = <<>> /\ saved = 0)

\* ---- C7

\* The payload went to the transport.
PayloadSent == ~IsNone(payload) /\ attempts # <<>>

\* C7: the payload sent for a model without standard parameters has neither
\* temperature nor top_p and carries max_completion_tokens, not max_tokens;
\* the payload sent for a model with standard parameters carries the caller's
\* temperature and top_p and max_tokens, and no max_completion_tokens.
C7_PayloadShape ==
    PayloadSent =>
        LET keys == DOMAIN Val(payload)
            r == Val(req)
        IN  IF VALID_MODELS[r.model].supports_standard_params
            THEN /\ {"temperature", "top_p", "max_tokens"} \subseteq keys
                 /\ "max_completion_tokens" \notin keys
                 /\ Val(payload).temperature = r.temperature
                 /\ Val(payload).top_p = r.top_p
            ELSE /\ "temperature" \notin keys
                 /\ "top_p" \notin keys
                 /\ "max_tokens" \notin keys
                 /\ "max_completion_tokens" \in keys

\* A payload without sampling parameters was sent for a caller who gave some.
C7_Witness ==
    /\ PayloadSent
    /\ Val(req).model = "gpto1mini"
    /\ Val(req).temperature = 7
    /\ Val(req).top_p = 10
    /\ "max_completion_tokens" \in DOMAIN Val(payload)

\* ---- C8

\* The token ceiling of a payload, under the key the model's family uses.
SentCeiling(data) ==
    IF "max_tokens" \in DOMAIN data THEN data.max_tokens
    ELSE data.max_completion_tokens

\* C8: the token ceiling of the payload sent is the smaller of the caller's
\* max_tokens and the model's max_tokens.
C8_CeilingIsMinimum ==
    PayloadSent =>
        LET sent == SentCeiling(Val(payload))
            asked == Val(req).max_tokens
            limit == VALID_MODELS[Val(req).model].max_tokens
        IN  /\ sent <= asked
            /\ sent <= limit
            /\ sent = asked \/ sent = limit

\* The caller asked for more than the model allows and the cap was sent.
C8_Witness ==
    /\ PayloadSent
    /\ Val(req).model = "gpt4"
    /\ Val(req).max_tokens = 16385
    /\ SentCeiling(Val(payload)) = 8192

\* ---- C9

\* C9: once make_api_request returned a response text and recording is
\* enabled, ask_llm ends by returning that text, whatever happens while the
\* record is persisted.
C9_PersistenceNeverRaises ==
    (ask_pc = "done" /\ ~IsNone(response) /\ Val(req).record) =>
        ask_result = Returned(Val(response))

\* ---- C10

\* No write into the interactions directory has failed.
NoWriteFailed ==
    \A name \in DOMAIN interactions :
        \A i \in 1..Len(interactions[name]) : interactions[name][i].complete

\* C10: as long as no write has failed, the interactions directory holds one
\* file for each call that wrote its record: no call wrote over the file of
\* another.
C10_OneFilePerRecordedCall ==
    NoWriteFailed => Cardinality(DOMAIN interactions) = saved


\* ---- C11

\* The transport's last answer to this call.
LastAnswer == attempts[Len(attempts)]

\* make_api_request is over after a 200 answer.
ParsedSuccess ==
    /\ ask_pc \in {"save", "done"}
    /\ attempts # <<>>
    /\ LastAnswer.kind = "status"
    /\ LastAnswer.status = 200

\* C11: after a 200 answer whose body decodes as JSON and has no response
\* field, make_api_request returned the empty string as the response text
\* (so it raised nothing); after a 200 answer whose body is no JSON the call
\* ended with the parse error.
C11_MissingFieldIsEmpty ==
    ParsedSuccess =>
        /\ LastAnswer.body \in {"object_without_response", "array"} =>
              response = Some("")
        /\ LastAnswer.body = "not_json" =>
              ask_result = Raised("JSONDecodeError")

\* ---- C12

\* The files whose names end, whatever the case of their letters, with a
\* listed extension.
ListedExtension(f) == f \in {"d/a.txt", "d/b.PDF"}

\* The files a specification stands for, in the order they are visited.
ExpectedFiles(p) ==
    IF IsWildcard(p) THEN SelectSeq(Glob(p), IsFile)
    ELSE IF IsDir(p) THEN SelectSeq(Walk(p), ListedExtension)
    ELSE IF IsFile(p) THEN <<p>>
    ELSE <<>>

RECURSIVE ExpectedReads(_)
ExpectedReads(ps) ==
    IF ps = <<>> THEN <<>>
    ELSE ExpectedFiles(Head(ps)) \o ExpectedReads(Tail(ps))

\* The file's text can be extracted.
Readable(f) == ~IsNone(fs[f].content)

\* The tokens of the files of a list: those of the texts that can be
\* extracted and counted.
RECURSIVE TokensOf(_)
TokensOf(files) ==
    IF files = <<>> THEN 0
    ELSE (IF Readable(Head(files)) /\ ~IsNone(fs[Head(files)].tokens)
          THEN Val(fs[Head(files)].tokens) ELSE 0) + TokensOf(Tail(files))

LastRead == reads[Len(reads)]

\* C12: a file whose extraction fails has no entry in the mapping and adds
\* nothing to total_tokens, and it stops nothing: as long as the budget error
\* has not ended the call, every file of every specification taken so far was
\* visited, every file that could be extracted has its entry, and
\* total_tokens is the tokens of the extracted files alone; the budget error
\* is only ever raised at a file that was extracted.
C12_FailedExtractionIsSkipped ==
    /\ \A f \in Range(reads) : ~Readable(f) => f \notin Range(context_data)
    /\ agg_pc \in {"loop", "returned"} =>
          /\ reads = ExpectedReads(paths)
          /\ \A f \in Range(reads) : Readable(f) => f \in Range(context_data)
          /\ total_tokens = IF IsNone(max_tokens) THEN 0 ELSE TokensOf(reads)
    /\ agg_pc = "exit" => (reads # <<>> /\ Readable(LastRead))

\* A directory whose first file cannot be extracted, then a file named
\* directly: the call returned the entries of the other two files.
C12_Witness ==
    /\ agg_pc = "returned"
    /\ paths = <<"d", "d/c.bin">>
    /\ ~Readable("d/a.txt")
    /\ ~IsNone(max_tokens)
    /\ context_data = <<"d/b.PDF", "d/c.bin">>
    /\ total_tokens = TokensOf(<<"d/b.PDF", "d/c.bin">>)
    /\ total_tokens > 0

\* ---- C13

\* The file was extracted and the tokenizer gave no count for its text.
UnknownCount(f) == Readable(f) /\ IsNone(fs[f].tokens)

\* C13: under a budget, an extracted file whose token count is unknown has its
\* entry in the mapping, no count is added for it (the counts added are those
\* of the files whose count is known), and the budget error is never raised
\* at such a file.
C13_UnknownCountIsFree ==
    ~IsNone(max_tokens) =>
        /\ agg_pc \in {"loop", "returned"} =>
              \A f \in Range(reads) : UnknownCount(f) => f \in Range(context_data)
        /\ Len(counted) =
              Len(SelectSeq(reads, LAMBDA f : Readable(f) /\ ~UnknownCount(f)))
        /\ SumSeq(counted) = TokensOf(reads)
        /\ agg_pc = "exit" => ~UnknownCount(LastRead)

\* Under the budget 0 a file of unknown count was aggregated and the call
\* returned its entry.
C13_Witness ==
    /\ agg_pc = "returned"
    /\ max_tokens = Some(0)
    /\ paths = <<"d/a.txt">>
    /\ UnknownCount("d/a.txt")
    /\ context_data = <<"d/a.txt">>
    /\ total_tokens = 0

\* ---- C14

\* The working prompt of the call at hand: the system instruction, a blank
\* line and the user prompt when a system instruction is present, otherwise
\* the user prompt alone.
WorkingPrompt ==
    LET i == Val(fmt_in)
    IN  IF i.system_prompt # None /\ i.system_prompt # Some(<<>>)
        THEN Val(i.system_prompt) \o <<BLANK_LINE>> \o i.prompt
        ELSE i.prompt

Occurrences(s, piece) == Cardinality({i \in 1..Len(s) : s[i] = piece})

Composed == Val(formatted_prompt)

\* Where the i-th piece of the working prompt starts in the output when every
\* placeholder before it was replaced by a context of the given length.
StartOf(i, length) ==
    i + Occurrences(SubSeq(WorkingPrompt, 1, i - 1), PLACEHOLDER) * (length - 1)

\* C14: without a context the output is the working prompt; with a context
\* and a placeholder in the working prompt, the output is the working prompt
\* with the context in the place of every placeholder and every other piece
\* kept in its order, and it holds no separator line; with a context and no
\* placeholder, the output is the working prompt, the separator line and the
\* context.
C14_ContextPlacement ==
    cli_pc = "composed" =>
        LET context == Val(fmt_in).context
            n == Len(Val(context))
        IN  /\ IsNone(context) => Composed = WorkingPrompt
            /\ (~IsNone(context) /\ Occurrences(WorkingPrompt, PLACEHOLDER) > 0) =>
                  /\ ~Contains(Composed, SEPARATOR)
                  /\ Len(Composed) = Len(WorkingPrompt)
                        + Occurrences(WorkingPrompt, PLACEHOLDER) * (n - 1)
                  /\ \A i \in 1..Len(WorkingPrompt) :
                        IF WorkingPrompt[i] = PLACEHOLDER
                        THEN SubSeq(Composed, StartOf(i, n), StartOf(i, n) + n - 1)
                                = Val(context)
                        ELSE Composed[StartOf(i, n)] = WorkingPrompt[i]
            /\ (~IsNone(context) /\ Occurrences(WorkingPrompt, PLACEHOLDER) = 0) =>
                  Composed = WorkingPrompt \o <<SEPARATOR>> \o Val(context)

\* A system instruction and a user prompt that both hold the placeholder were
\* composed with a context: both occurrences were replaced.
C14_Witness ==
    /\ cli_pc = "composed"
    /\ Val(fmt_in) = [prompt |-> <<"x", PLACEHOLDER>>,
                      context |-> Some(<<"x", "x">>),
                      system_prompt |-> Some(<<PLACEHOLDER>>)]
    /\ Composed = <<"x", "x", BLANK_LINE, "x", "x", "x">>

\* A prompt without placeholder was composed with a context.
C14_WitnessAppended ==
    /\ cli_pc = "composed"
    /\ Val(fmt_in) = [prompt |-> <<"x">>, context |-> Some(<<"x">>),
                      system_prompt |-> None]
    /\ Composed = <<"x", SEPARATOR, "x">>

\* ---- C15

\* The specification the loop has just taken, and the files it read for it.
TakenPath == paths'[Len(paths')]

NewReads == SubSeq(reads', Len(reads) + 1, Len(reads'))

TakesPath == Len(paths') = Len(paths) + 1

C15_Step ==
    TakesPath =>
        /\ (~IsWildcard(TakenPath) /\ IsDir(TakenPath)) =>
              /\ \A f \in Range(NewReads) : ListedExtension(f)
              /\ agg_pc' # "exit" =>
                    NewReads = SelectSeq(Walk(TakenPath), ListedExtension)
        /\ (~IsWildcard(TakenPath) /\ ~IsDir(TakenPath) /\ IsFile(TakenPath)) =>
              /\ NewReads = <<TakenPath>>
              /\ (Readable(TakenPath) /\ agg_pc' # "exit") =>
                    TakenPath \in Range(context_data')

\* C15: for a directory specification the files extracted are those of the
\* walk whose names end, whatever the case, with a listed extension (all of
\* them unless the budget error ends the walk); for a specification naming an
\* existing file, that file is extracted whatever its extension.
C15_FilterOnlyInDirectories == [][C15_Step]_vars

\* The directory gave the text file and the PDF with the capital extension,
\* not c.bin; c.bin named directly was extracted.
C15_Witness ==
    /\ agg_pc = "returned"
    /\ paths = <<"d", "d/c.bin">>
    /\ scandir = <<"d/c.bin", "d/b.PDF", "d/a.txt">>
    /\ reads = <<"d/b.PDF", "d/a.txt", "d/c.bin">>
    /\ context_data = <<"d/b.PDF", "d/a.txt", "d/c.bin">>

\* ---- C16

\* A wildcard that matches nothing, or no wildcard, directory or file.
ResolvesToNothing(p) ==
    \/ IsWildcard(p) /\ Glob(p) = <<>>
    \/ ~IsWildcard(p) /\ ~IsDir(p) /\ ~IsFile(p)

C16_Step ==
    (TakesPath /\ ResolvesToNothing(TakenPath)) =>
        /\ context_data' = context_data
        /\ total_tokens' = total_tokens
        /\ reads' = reads
        /\ counted' = counted
        /\ agg_pc' = "loop"

\* C16: taking a specification that resolves to nothing changes neither the
\* mapping nor the total, reads and counts no file, and leaves the call in
\* its loop over the specifications.
C16_NothingResolvedIsNotFatal == [][C16_Step]_vars

\* A missing path was taken first and the file named after it was aggregated.
C16_Witness ==
    /\ agg_pc = "returned"
    /\ paths = <<"nope", "d/a.txt">>
    /\ context_data = <<"d/a.txt">>
    /\ ~IsNone(max_tokens)
    /\ total_tokens > 0

\* An entry was aggregated first and kept when the empty wildcard was taken.
C16_WitnessWildcard ==
    /\ agg_pc = "returned"
    /\ paths = <<"d/a.txt", "x*">>
    /\ context_data = <<"d/a.txt">>
    /\ total_tokens > 0

\* ---- C17

\* C17: under a budget, once the counts added in the call sum to more than
\* max_tokens the call has ended with the budget error: it is not in its loop
\* (no further file is extracted or counted) and it has not returned a
\* mapping. Stated for the calls that read no file twice.
C17_FailFast ==
    (~IsNone(max_tokens) /\ NoFileTwice /\ CountedSum > Val(max_tokens)) =>
        agg_pc = "exit"

\* ---- C18

Is4xx(o) == o.kind = "status" /\ 400 <= o.status /\ o.status < 500

\* C18: a 4xx answer is never followed by another attempt; when it is the
\* transport's answer to the first attempt the transport was invoked exactly
\* once; and the call then ends with the HTTP error, without a response text.
C18_ClientErrorIsFinal ==
    /\ \A i \in 1..Len(attempts) : Is4xx(attempts[i]) => i = Len(attempts)
    /\ (attempts # <<>> /\ Is4xx(attempts[1])) => Len(attempts) = 1
    /\ (ask_pc = "done" /\ attempts # <<>> /\ Is4xx(LastAnswer)) =>
          (ask_result = Raised("HTTPError") /\ IsNone(response))

\* The transport answered 404 and the call is over.
C18_Witness ==
    /\ ask_pc = "done"
    /\ Len(attempts) = 1
    /\ attempts[1].status = 404
    /\ ask_result = Raised("HTTPError")

\* ---- C19

\* C19: an interaction file exists (written in full, or left empty or cut
\* short by a failed write) only when the call had the record toggle on and
\* make_api_request returned a response text after a 200 answer; a call that
\* ended any other way wrote nothing.
C19_RecordOnlyAfterSuccess ==
    (saved > 0 \/ interactions # <<>>) =>
        /\ ask_pc = "done"
        /\ Val(req).record
        /\ ~IsNone(response)
        /\ ParsedSuccess
        /\ ask_result = Returned(Val(response))
        /\ saved <= 1
        /\ Cardinality(DOMAIN interactions) = 1

\* A call with the toggle on wrote its record.
C19_Witness ==
    /\ saved = 1
    /\ NoWriteFailed
    /\ Cardinality(DOMAIN interactions) = 1
    /\ Val(req).record
    /\ ask_result = Returned(ResponseText)

\* A call that got a response with the toggle off is over.
C19_WitnessToggleOff ==
    /\ ask_pc = "done"
    /\ ~IsNone(response)
    /\ ~Val(req).record


\* ---- C20

\* C20: whenever main has had a payload sent, the payload's system field is
\* the default system prompt, its prompt sequence holds exactly the composed
\* prompt, and a selected system instruction that is not empty stands at the
\* front of that prompt, before a blank line.
C20_SystemOnlyInlined ==
    (cli_pc = "composed" /\ PayloadSent) =>
        /\ Val(payload).system = DEFAULT_SYSTEM_PROMPT
        /\ Val(payload).prompt = <<Val(formatted_prompt)>>
        /\ \A name \in {"code_review"} :
              (Val(args).system = Some(name) \/
               (~IsNone(Val(args).task) /\
                TASKS[Val(Val(args).task)].system_prompt = name)) =>
                  IsPrefix(<<"You are an expert code reviewer.", BLANK_LINE>>,
                           Val(formatted_prompt))

\* A run with -s code_review had its payload sent.
C20_Witness ==
    /\ cli_pc = "composed"
    /\ PayloadSent
    /\ Val(args).system = Some("code_review")
    /\ Val(payload).system = DEFAULT_SYSTEM_PROMPT
    /\ Head(Val(formatted_prompt)) = "You are an expert code reviewer."

\* A run with the task review had its payload sent.
C20_WitnessTask ==
    /\ cli_pc = "composed"
    /\ PayloadSent
    /\ Val(args).task = Some("review")
    /\ Head(Val(formatted_prompt)) = "You are an expert code reviewer."

====
